---- MODULE Spec2Model ----
(***************************************************************************)
(* The streamed chat consumer of frontend/src/App.tsx: streamChat (the     *)
(* wire decoder and payload parser), the event handling of                 *)
(* AssistantChat.run (the message assembler), buildAssistantParts (the     *)
(* snapshot derivation) and the run itself (prompt, token, POST, stream).  *)
(*                                                                         *)
(* Text is a sequence of characters; a character is a one-element string.  *)
(* JavaScript values are records [t, v]: t is the value's kind and v a     *)
(* sequence of strings (the characters of a string, the digits of a        *)
(* number, the members of an object).                                      *)
(***************************************************************************)
EXTENDS Integers, Sequences, FiniteSets, TLC

VARIABLES
    pc,               \* position of the run: start, auth, fetch, open, reading, done, failed
    status,           \* the status indicator set by setStatus
    error,            \* the error the run threw, "none" while it has thrown nothing
    messages,         \* options.messages
    trace,            \* history: the external calls the run has made (getToken, fetch, text)
    response,         \* the Response fetch resolved with
    source,           \* bytes of the response body not yet delivered by reader.read()
    body,             \* all bytes of the response body (never changes during a run)
    decoderPending,   \* bytes the streaming TextDecoder holds back (an incomplete character)
    buffer,           \* streamChat: buffer
    lines,            \* streamChat: lines of the current frame not yet looked at
    assistantText,    \* run: assistantText
    toolMap,          \* run: toolMap
    toolOrder,        \* run: toolOrder
    finalResponseId,  \* run: finalResponseId
    emitted,          \* history: the events streamChat has yielded, in order
    yielded,          \* history: the snapshots the run has yielded, in order
    firstRef,         \* history: tool ids in the order they were first referenced
    readerLocked,     \* response.body.getReader() was called and the lock not released
    aborted,          \* options.abortSignal has fired
    yieldedAtAbort,   \* history: Len(yielded) when the signal fired
    splits,           \* history: where reads have cut the body ("char", "delimiter")
    token,            \* run: token, "" while getToken has returned none
    payloads,         \* history: the payloads streamChat has passed to safeJsonParse
    two               \* two runs in progress at once: each run's instance of the run state

vars == <<pc, status, error, messages, trace, response, source, body, decoderPending, buffer, lines,
          assistantText, toolMap, toolOrder, finalResponseId, emitted, yielded,
          firstRef, readerLocked, aborted, yieldedAtAbort, splits, token,
          payloads, two>>

(***************************************************************************)
(* Bounds of the model.                                                    *)
(***************************************************************************)
MaxPieces == 2     \* pieces of wire text in one response body
MaxEvents == 4     \* events applied in the assembler-only specification
MaxEventsTwo == 2  \* events each of two runs in progress at once handles

(***************************************************************************)
(* JavaScript values.                                                      *)
(***************************************************************************)
Undef == [t |-> "undefined", v |-> <<>>]
Null == [t |-> "null", v |-> <<>>]
Str(cs) == [t |-> "string", v |-> cs]
Num(d) == [t |-> "number", v |-> <<d>>]
Obj(members) == [t |-> "object", v |-> members]
EmptyObj == Obj(<<>>)

TypeOf(x) == IF x.t = "null" THEN "object" ELSE x.t

Truthy(x) ==
    CASE x.t = "undefined" -> FALSE
      [] x.t = "null" -> FALSE
      [] x.t = "string" -> x.v # <<>>
      [] x.t = "number" -> x.v # <<"0">>
      [] OTHER -> TRUE

\* a ?? b
Coalesce(a, b) == IF a.t \in {"undefined", "null"} THEN b ELSE a

\* String(x), as string concatenation converts its right operand
ToStringChars(x) ==
    CASE x.t = "string" -> x.v
      [] x.t = "number" -> x.v
      [] x.t = "undefined" -> <<"undefined">>
      [] x.t = "null" -> <<"null">>
      [] OTHER -> <<"[object Object]">>

\* a + b with a string on the left (assistantText is a string whenever a
\* token is applied: a run whose text became a non-string has thrown)
JSPlus(a, b) == Str(ToStringChars(a) \o ToStringChars(b))

Whitespace == {" ", "\n"}

\* String.prototype.trim: from the first to the last character that is not
\* white space
Trim(s) ==
    LET keep == {i \in 1..Len(s) : s[i] \notin Whitespace}
    IN IF keep = {} THEN <<>>
       ELSE SubSeq(s, CHOOSE i \in keep : \A j \in keep : i <= j,
                      CHOOSE i \in keep : \A j \in keep : j <= i)

\* JSON.stringify(x, null, 2) of an object or a number
Stringify(x) ==
    CASE x.t = "object" -> <<"{">> \o x.v \o <<"}">>
      [] x.t = "string" -> <<"\"">> \o x.v \o <<"\"">>
      [] x.t = "null" -> <<"null">>
      [] OTHER -> x.v

(***************************************************************************)
(* Stream events (type StreamEvent) and tool states (type ToolState).      *)
(* An event record carries every field; a field the payload did not carry  *)
(* is Undef.  tool_calls is [t, items]: t = "array" with its entries in    *)
(* items, t = "undefined" when absent, any other t a value that is not a   *)
(* list.  hasResult records whether the object literal that built a tool   *)
(* state wrote a result key at all.                                        *)
(***************************************************************************)
NoCalls == [t |-> "undefined", items |-> <<>>]
Calls(items) == [t |-> "array", items |-> items]
NotAList == [t |-> "number", items |-> <<>>]

Call(id, name, input, output) ==
    [id |-> id, name |-> name, input |-> input, output |-> output]

Event(type, id, name, input, output, content, calls, rid) ==
    [type |-> type, id |-> id, name |-> name, input |-> input, output |-> output,
     content |-> content, tool_calls |-> calls, response_id |-> rid]

Token(cs) == Event("token", "", "", Undef, Undef, Str(cs), NoCalls, Undef)
ToolStart(id, name, input) ==
    Event("tool_start", id, name, input, Undef, Undef, NoCalls, Undef)
ToolEnd(id, name, output) ==
    Event("tool_end", id, name, Undef, output, Undef, NoCalls, Undef)
Final(content, calls, rid) ==
    Event("final", "", "", Undef, Undef, content, calls, rid)
Other(type) == Event(type, "", "", Undef, Undef, Undef, NoCalls, Undef)

ToolState(id, name, args, hasResult, result) ==
    [id |-> id, name |-> name, args |-> args, hasResult |-> hasResult,
     result |-> result]

EmptyMap == [k \in {} |-> 0]

\* Map.prototype.set
MapSet(m, k, val) == [x \in DOMAIN m \cup {k} |-> IF x = k THEN val ELSE m[x]]

\* Array.prototype.includes
Includes(seq, x) == \E i \in 1..Len(seq) : seq[i] = x

(***************************************************************************)
(* The run-local state and the handling of one event (the body of the      *)
(* for await loop up to the snapshot).  threw is set when the handling     *)
(* raised a TypeError; what had been assigned before it stays assigned.    *)
(***************************************************************************)
RunState(text, map, order, rid) ==
    [text |-> text, map |-> map, order |-> order, rid |-> rid, threw |-> FALSE]

FreshState == RunState(Str(<<>>), EmptyMap, <<>>, Str(<<>>))

\* OnToken replacing the text by the content
OnToken_Overwrite(st, ev) == [st EXCEPT !.text = ev.content]

\* if (event.type === 'token') assistantText += event.content
OnToken(st, ev) == [st EXCEPT !.text = JSPlus(st.text, ev.content)]

\* OnToolStart pushing the id whether or not the map has an entry
OnToolStart_AlwaysPush(st, ev) ==
    [st EXCEPT
       !.order = Append(st.order, ev.id),
       !.map = MapSet(st.map, ev.id,
                      ToolState(ev.id, ev.name, Coalesce(ev.input, EmptyObj),
                                FALSE, Undef))]

\* tool_start: push the id when the map has no entry, then set the entry
OnToolStart(st, ev) ==
    [st EXCEPT
       !.order = IF ev.id \in DOMAIN st.map THEN st.order ELSE Append(st.order, ev.id),
       !.map = MapSet(st.map, ev.id,
                      ToolState(ev.id, ev.name, Coalesce(ev.input, EmptyObj),
                                FALSE, Undef))]

\* ExistingArgs that forgets the args of the entry
ExistingArgs_Reset(map, id) == EmptyObj

\* existing?.args ?? {}
ExistingArgs(map, id) ==
    IF id \in DOMAIN map THEN Coalesce(map[id].args, EmptyObj) ELSE EmptyObj

\* OnToolEnd pushing the id whether or not toolOrder has it
OnToolEnd_AlwaysPush(st, ev) ==
    [st EXCEPT
       !.map = MapSet(st.map, ev.id,
                      ToolState(ev.id, ev.name, ExistingArgs(st.map, ev.id),
                                TRUE, ev.output)),
       !.order = Append(st.order, ev.id)]

\* OnToolEnd that never pushes the id
OnToolEnd_NoPush(st, ev) ==
    [st EXCEPT
       !.map = MapSet(st.map, ev.id,
                      ToolState(ev.id, ev.name, ExistingArgs(st.map, ev.id),
                                TRUE, ev.output))]

\* tool_end: set the entry keeping its args, then push the id when missing
OnToolEnd(st, ev) ==
    [st EXCEPT
       !.map = MapSet(st.map, ev.id,
                      ToolState(ev.id, ev.name, ExistingArgs(st.map, ev.id),
                                TRUE, ev.output)),
       !.order = IF Includes(st.order, ev.id) THEN st.order ELSE Append(st.order, ev.id)]

\* UpsertCall storing the entry without the output of the call
UpsertCall_DropsOutput(st, call) ==
    [st EXCEPT
       !.map = MapSet(st.map, call.id,
                      ToolState(call.id, call.name, Coalesce(call.input, EmptyObj),
                                FALSE, Undef)),
       !.order = IF Includes(st.order, call.id) THEN st.order
                 ELSE Append(st.order, call.id)]

\* one iteration of  for (const call of event.tool_calls ?? [])
UpsertCall(st, call) ==
    [st EXCEPT
       !.map = MapSet(st.map, call.id,
                      ToolState(call.id, call.name, Coalesce(call.input, EmptyObj),
                                TRUE, call.output)),
       !.order = IF Includes(st.order, call.id) THEN st.order
                 ELSE Append(st.order, call.id)]

RECURSIVE UpsertCalls(_, _)
UpsertCalls(st, calls) ==
    IF calls = <<>> THEN st
    ELSE UpsertCalls(UpsertCall(st, Head(calls)), Tail(calls))

\* FinalContent appending the content to the accumulated text
FinalContent_Append(st, ev) ==
    IF Truthy(ev.content) THEN [st EXCEPT !.text = JSPlus(st.text, ev.content)] ELSE st

\* FinalContent assigning the content whenever it is a string, empty or not
FinalContent_AnyString(st, ev) ==
    IF ev.content.t = "string" THEN [st EXCEPT !.text = ev.content] ELSE st

\* if (event.content) assistantText = event.content
FinalContent(st, ev) ==
    IF Truthy(ev.content) THEN [st EXCEPT !.text = ev.content] ELSE st

\* FinalResponseId storing the response_id of every final, present or not
FinalResponseId_Always(st, ev) == [st EXCEPT !.rid = ev.response_id]

\* if (event.response_id) finalResponseId = event.response_id
FinalResponseId(st, ev) ==
    IF Truthy(ev.response_id) THEN [st EXCEPT !.rid = ev.response_id] ELSE st

\* for ... of over a value that is neither absent nor a list raises a TypeError
FinalCalls(st, ev) ==
    CASE ev.tool_calls.t \in {"undefined", "null"} -> st
      [] ev.tool_calls.t = "array" -> UpsertCalls(st, ev.tool_calls.items)
      [] OTHER -> [st EXCEPT !.threw = TRUE]

OnFinal(st, ev) == FinalCalls(FinalResponseId(FinalContent(st, ev), ev), ev)

\* the four  if (event.type === ...)  statements; any other type matches none
ApplyEvent(st, ev) ==
    CASE ev.type = "token" -> OnToken(st, ev)
      [] ev.type = "tool_start" -> OnToolStart(st, ev)
      [] ev.type = "tool_end" -> OnToolEnd(st, ev)
      [] ev.type = "final" -> OnFinal(st, ev)
      [] OTHER -> st

(***************************************************************************)
(* Snapshot derivation: orderedTools and buildAssistantParts.              *)
(***************************************************************************)
Part(type, id, name, args, argsText, hasResult, result, text) ==
    [type |-> type, toolCallId |-> id, toolName |-> name, args |-> args,
     argsText |-> argsText, hasResult |-> hasResult, result |-> result,
     text |-> text]

TextPart(text) == Part("text", "", "", Undef, Undef, FALSE, Undef, text)

\* the object literal of toolStates.map(...)
ToolPart(tool) ==
    Part("tool-call", tool.id, tool.name,
         IF TypeOf(tool.args) = "object" /\ tool.args.t # "null"
         THEN tool.args ELSE EmptyObj,
         IF TypeOf(tool.args) = "string" THEN tool.args
         ELSE Str(Stringify(Coalesce(tool.args, EmptyObj))),
         tool.result # Undef,
         IF tool.result # Undef THEN tool.result ELSE Undef,
         Undef)

\* KeepsText without the  || parts.length === 0  alternative
KeepsText_OnlyWhenText(text, toolStates) == Len(Trim(text.v)) > 0

\* KeepsText testing the text as it is, not trimmed
KeepsText_NoTrim(text, toolStates) == Len(text.v) > 0 \/ Len(toolStates) = 0

\* if (text.trim().length > 0 || parts.length === 0) parts.push(text part)
KeepsText(text, toolStates) == Len(Trim(text.v)) > 0 \/ Len(toolStates) = 0

buildAssistantParts(text, toolStates) ==
    [i \in 1..Len(toolStates) |-> ToolPart(toolStates[i])]
      \o (IF KeepsText(text, toolStates) THEN <<TextPart(text)>> ELSE <<>>)

\* the ToolPart component: isRunning = result === undefined, result being
\* the prop the part supplies (undefined when the part has no result key)
isRunning(part) == part.result = Undef

\* the label the ToolPart component shows after the tool name
ToolPartLabel(part) == IF isRunning(part) THEN "(running...)" ELSE "(completed)"

\* OrderedTools listing the tools newest first
OrderedTools_NewestFirst(st) ==
    LET present == SelectSeq(st.order, LAMBDA id : id \in DOMAIN st.map)
    IN [i \in 1..Len(present) |-> st.map[present[Len(present) + 1 - i]]]

\* toolOrder.map((id) => toolMap.get(id)).filter(Boolean)
OrderedTools(st) ==
    LET present == SelectSeq(st.order, LAMBDA id : id \in DOMAIN st.map)
    IN [i \in 1..Len(present) |-> st.map[present[i]]]

\* the value the run yields after an event
Snapshot(st) ==
    [content |-> buildAssistantParts(st.text, OrderedTools(st)),
     response_id |-> st.rid]

RECURSIVE FoldEvents(_, _)
\* the state after handling a sequence of events one by one
FoldEvents(st, evs) ==
    IF evs = <<>> \/ st.threw THEN st
    ELSE FoldEvents(ApplyEvent(st, Head(evs)), Tail(evs))

(***************************************************************************)
(* Wire text.  A byte is written as a string.  The bytes "C3" "A9" are the *)
(* UTF-8 encoding of one two-byte character, written "eacute" once         *)
(* decoded; "FFFD" is the replacement character.  JSON texts are written   *)
(* with abbreviations: "{" "}" is the empty object; "{" "T" c1 .. cn "}"   *)
(* is {"type":"token","content":"c1..cn"}; "{" K "}" with K a key of       *)
(* Members is the object Members(K); "null" is null.  Any other text is    *)
(* not JSON.                                                               *)
(***************************************************************************)
NL == "\n"
DataPrefix == <<"d", "a", "t", "a", ":">>
ContentChars == {"a", "b", "eacute", "FFFD", " "}

\* TextDecoder.decode(value, {stream: true}): an incomplete character at
\* the end of the chunk is held back for the next call; a lead byte that
\* no continuation follows and a continuation without its lead decode to the
\* replacement character
\* the character byte i of bs completes, "" when it completes none
DecodedAt(bs, i) ==
    CASE bs[i] = "C3" -> IF i < Len(bs) /\ bs[i + 1] # "A9" THEN "FFFD" ELSE ""
      [] bs[i] = "A9" -> IF i > 1 /\ bs[i - 1] = "C3" THEN "eacute" ELSE "FFFD"
      [] OTHER -> bs[i]

\* Decode without {stream: true}: nothing is held back, an incomplete
\* character at the end of the chunk decodes to the replacement character
Decode_NoStream(pending, bytes) ==
    LET each == [i \in 1..Len(bytes) |->
                   IF bytes[i] = "C3" /\ i = Len(bytes) THEN "FFFD"
                   ELSE DecodedAt(bytes, i)]
    IN [out |-> SelectSeq(each, LAMBDA c : c # ""), pending |-> <<>>]

Decode(pending, bytes) ==
    LET bs == pending \o bytes
        each == [i \in 1..Len(bs) |-> DecodedAt(bs, i)]
    IN [out |-> SelectSeq(each, LAMBDA c : c # ""),
        pending |-> IF bs # <<>> /\ bs[Len(bs)] = "C3" THEN <<"C3">> ELSE <<>>]

\* buffer.indexOf('\n\n'), counted from 1; 0 when there is none
IndexOfBoundary(buf) ==
    LET hits == {i \in 1..(Len(buf) - 1) : buf[i] = NL /\ buf[i + 1] = NL}
    IN IF hits = {} THEN 0 ELSE CHOOSE i \in hits : \A j \in hits : i <= j

\* chunk.split('\n'): the pieces between consecutive newlines
SplitLines(s) ==
    LET cuts == {0, Len(s) + 1} \cup {i \in 1..Len(s) : s[i] = NL}
        Cut(k) == CHOOSE c \in cuts : Cardinality({d \in cuts : d < c}) = k - 1
    IN [k \in 1..(Cardinality(cuts) - 1) |-> SubSeq(s, Cut(k) + 1, Cut(k + 1) - 1)]

\* buffer.slice(0, boundary).trim().split('\n')
FrameLines(buf, boundary) == SplitLines(Trim(SubSeq(buf, 1, boundary - 1)))

\* buffer.slice(boundary + 2)
AfterBoundary(buf, boundary) == SubSeq(buf, boundary + 2, Len(buf))

\* line.startsWith('data:')
StartsWithData(line) ==
    Len(line) >= Len(DataPrefix) /\ SubSeq(line, 1, Len(DataPrefix)) = DataPrefix

\* PayloadOf taking the rest of the line as it is, not trimmed
PayloadOf_NoTrim(line) == SubSeq(line, Len(DataPrefix) + 1, Len(line))

\* line.slice(5).trim()
PayloadOf(line) == Trim(SubSeq(line, Len(DataPrefix) + 1, Len(line)))

\* the objects the abbreviated members lists stand for
MemberKeys == {"Kstart", "Kend", "Kfinal", "Kcalls", "Kbad", "Kping"}
Members(k) ==
    CASE k = "Kstart" -> ToolStart("A", "search", Obj(<<"q:x">>))
      [] k = "Kend" -> ToolEnd("A", "search", Obj(<<"n:3">>))
      [] k = "Kfinal" -> Final(Str(<<"F">>), NoCalls, Str(<<"r1">>))
      [] k = "Kcalls" ->
           Final(Undef, Calls(<<Call("B", "fetch", Undef, Undef)>>), Undef)
      [] k = "Kbad" -> Final(Str(<<>>), NotAList, Undef)
      [] k = "Kping" -> Other("ping")

\* a parsed value: its typeof, whether it is null, whether 'type' in it,
\* and the object itself when it has a type
Parsed(kind, isNull, hasType, ev) ==
    [kind |-> kind, isNull |-> isNull, hasType |-> hasType, event |-> ev]

IsJsonText(raw) ==
    \/ raw = <<"null">>
    \/ /\ Len(raw) >= 2
       /\ raw[1] = "{"
       /\ raw[Len(raw)] = "}"
       /\ \/ Len(raw) = 2
          \/ Len(raw) = 3 /\ raw[2] \in MemberKeys
          \/ /\ raw[2] = "T"
             /\ \A i \in 3..(Len(raw) - 1) : raw[i] \in ContentChars

\* JSON.parse(raw) of a JSON text
JsonParse(raw) ==
    IF raw = <<"null">> THEN Parsed("object", TRUE, FALSE, Other(""))
    ELSE IF Len(raw) = 2 THEN Parsed("object", FALSE, FALSE, Other(""))
    ELSE IF raw[2] = "T"
         THEN Parsed("object", FALSE, TRUE, Token(SubSeq(raw, 3, Len(raw) - 1)))
    ELSE Parsed("object", FALSE, TRUE, Members(raw[2]))

\* safeJsonParse falling back to a token that carries the raw text
safeJsonParse_RawAsToken(raw) ==
    IF IsJsonText(raw) THEN JsonParse(raw) ELSE Parsed("object", FALSE, TRUE, Token(raw))

\* try { return JSON.parse(raw) } catch { return raw }
safeJsonParse(raw) ==
    IF IsJsonText(raw) THEN JsonParse(raw) ELSE Parsed("string", FALSE, FALSE, Other(""))

\* if (event && typeof event === 'object' && 'type' in event)
IsEvent(parsed) == ~parsed.isNull /\ parsed.kind = "object" /\ parsed.hasType

\* the payload one line of a frame hands to safeJsonParse: <<payload>> or
\* nothing (the two  continue  statements)
LinePayloads(line) ==
    IF ~StartsWithData(line) THEN <<>>
    ELSE IF PayloadOf(line) = <<>> THEN <<>>
    ELSE <<PayloadOf(line)>>

\* what one line of a frame makes streamChat yield: <<event>> or nothing
LineEvents(line) ==
    IF ~StartsWithData(line) THEN <<>>
    ELSE IF PayloadOf(line) = <<>> THEN <<>>
    ELSE IF IsEvent(safeJsonParse(PayloadOf(line)))
         THEN <<safeJsonParse(PayloadOf(line)).event>>
    ELSE <<>>

(***************************************************************************)
(* extractUserPrompt.                                                      *)
(***************************************************************************)
Message(role, parts) == [role |-> role, content |-> parts]
MsgPart(type, text) == [type |-> type, text |-> text]

RECURSIVE JoinLines(_)
\* Array.prototype.join('\n')
JoinLines(texts) ==
    IF texts = <<>> THEN <<>>
    ELSE IF Len(texts) = 1 THEN texts[1]
    ELSE texts[1] \o <<NL>> \o JoinLines(Tail(texts))

\* message.content.filter(text parts).map(text).join('\n').trim()
MessageText(message) ==
    LET textParts == SelectSeq(message.content, LAMBDA p : p.type = "text")
    IN Trim(JoinLines([i \in 1..Len(textParts) |-> textParts[i].text]))

RECURSIVE extractUserPrompt(_)
\* the text of the last message whose role is user, '' when there is none
extractUserPrompt(msgs) ==
    IF msgs = <<>> THEN <<>>
    ELSE IF msgs[Len(msgs)].role = "user" THEN MessageText(msgs[Len(msgs)])
    ELSE extractUserPrompt(SubSeq(msgs, 1, Len(msgs) - 1))

(***************************************************************************)
(* The inputs the model draws from.                                        *)
(***************************************************************************)
MessageLists ==
    { <<>>,
      << Message("user", <<MsgPart("text", <<" ">>)>>) >>,
      << Message("user", <<MsgPart("text", <<" ", "h", "i">>),
                           MsgPart("image", <<"p">>),
                           MsgPart("text", <<"y", " ">>)>>),
         Message("assistant", <<MsgPart("text", <<"o", "k">>)>>) >> }

Terminator == <<NL, NL>>
DataLine(payload) == DataPrefix \o payload

\* pieces of wire text a response body is made of
Pieces ==
    { DataLine(<<"{", "T", "a", "}">>) \o Terminator,
      DataLine(<<"{", "T", "C3", "A9", "}">>) \o Terminator,
      DataLine(<<"n", "o">>) \o Terminator,
      DataLine(<<" ", "{", "Kcalls", "}", " ">>) \o <<NL>>,
      <<NL, ":", "k">> \o Terminator,
      DataLine(<<"{", "Kend", "}">>) \o <<NL>> \o DataLine(<<"{", "Kfinal", "}">>)
        \o Terminator,
      DataLine(<<"{", "Kping", "}">>) \o Terminator,
      DataLine(<<"{", "Kbad", "}">>) \o Terminator,
      <<" ">> \o DataLine(<<"null">>) \o <<NL>> \o DataLine(<<"{", "}">>) \o <<NL>>
        \o DataLine(<<" ">>) \o Terminator }

RECURSIVE BodiesOf(_)
\* the bodies made of at most n pieces
BodiesOf(n) ==
    IF n = 0 THEN {<<>>}
    ELSE LET shorter == BodiesOf(n - 1)
         IN shorter \cup {b \o p : b \in shorter, p \in Pieces}

Bodies == BodiesOf(MaxPieces)

Response(ok, code, hasBody, text) ==
    [ok |-> ok, status |-> code, hasBody |-> hasBody, text |-> text]

NoResponse == Response(FALSE, 0, FALSE, <<>>)

Responses ==
    {Response(TRUE, 200, TRUE, b) : b \in Bodies}
      \cup {Response(TRUE, 204, FALSE, <<>>),
            Response(FALSE, 500, TRUE, <<"o", "o", "p", "s">>),
            Response(FALSE, 401, TRUE, DataLine(<<"{", "T", "a", "}">>) \o Terminator)}

\* events of the assembler-only specification
AsmEvents ==
    { Token(<<"a">>),
      ToolStart("A", "search", Obj(<<"q:x">>)),
      ToolStart("A", "search", Str(<<"q">>)),
      ToolStart("B", "fetch", Undef),
      ToolEnd("A", "search", Obj(<<"n:3">>)),
      ToolEnd("B", "fetch", Undef),
      Final(Str(<<"F">>), NoCalls, Str(<<"r1">>)),
      Final(Undef, NoCalls, Undef),
      Final(Str(<<" ">>), NoCalls, Undef),
      Final(Str(<<>>),
            Calls(<<Call("B", "fetch", Obj(<<"u:1">>), Undef),
                    Call("A", "search", Undef, Obj(<<"n:3">>))>>),
            Str(<<"r2">>)),
      Final(Undef, NotAList, Undef),
      Token(<<"b">>),
      Other("ping") }

(***************************************************************************)
(* The run.                                                                *)
(***************************************************************************)
NoError == [kind |-> "none", status |-> 0, detail |-> <<>>]
Failure(kind, code, detail) == [kind |-> kind, status |-> code, detail |-> detail]

CurState == RunState(assistantText, toolMap, toolOrder, finalResponseId)

AskSnapshot ==
    [content |-> <<TextPart(Str(<<"Please enter a message.">>))>>,
     response_id |-> Undef]

\* the runs in progress at once
Runs == {1, 2}

\* assistantText, toolMap, toolOrder and finalResponseId are declared inside
\* run: every invocation of run works on an instance of its own
InstanceOf_Shared(r) == 1

InstanceOf(r) == r

TwoFresh ==
    [inst |-> [i \in Runs |-> FreshState],
     emitted |-> [r \in Runs |-> <<>>],
     yielded |-> [r \in Runs |-> <<>>],
     failed |-> [r \in Runs |-> FALSE]]

\* the tool ids an event refers to, in the order the handling meets them
RefIds(ev) ==
    CASE ev.type \in {"tool_start", "tool_end"} -> <<ev.id>>
      [] ev.type = "final" /\ ev.tool_calls.t = "array" ->
           [i \in 1..Len(ev.tool_calls.items) |-> ev.tool_calls.items[i].id]
      [] OTHER -> <<>>

RECURSIVE AddNew(_, _)
AddNew(seen, ids) ==
    IF ids = <<>> THEN seen
    ELSE AddNew(IF Includes(seen, Head(ids)) THEN seen ELSE Append(seen, Head(ids)),
                Tail(ids))

Init ==
    /\ pc = "start"
    /\ status = "Idle"
    /\ error = NoError
    /\ messages \in MessageLists
    /\ trace = <<>>
    /\ response = NoResponse
    /\ source = <<>>
    /\ body = <<>>
    /\ decoderPending = <<>>
    /\ buffer = <<>>
    /\ lines = <<>>
    /\ assistantText = Str(<<>>)
    /\ toolMap = EmptyMap
    /\ toolOrder = <<>>
    /\ finalResponseId = Str(<<>>)
    /\ emitted = <<>>
    /\ yielded = <<>>
    /\ firstRef = <<>>
    /\ readerLocked = FALSE
    /\ aborted = FALSE
    /\ yieldedAtAbort = 0
    /\ splits = {}
    /\ token = ""
    /\ payloads = <<>>
    /\ two = TwoFresh

streamVars == <<source, body, decoderPending, buffer, lines, readerLocked>>
asmVars == <<assistantText, toolMap, toolOrder, finalResponseId, emitted, yielded, firstRef>>
abortVars == <<aborted, yieldedAtAbort, splits>>

\* the run throws: nothing after the throw executes
Throw(failure) ==
    /\ pc' = "failed"
    /\ error' = failure

\* Start going on to authenticate whatever the prompt
Start_NoShortCircuit ==
    /\ pc = "start"
    /\ status' = "Authenticating..."
    /\ pc' = "auth"
    /\ UNCHANGED <<error, messages, token, two, payloads, trace, response, streamVars, asmVars,
                   abortVars>>

\* prompt = extractUserPrompt(options); the empty prompt yields the request
\* for input and returns, any other prompt goes on to authenticate
Start ==
    /\ pc = "start"
    /\ IF extractUserPrompt(messages) = <<>>
       THEN /\ yielded' = <<AskSnapshot>>
            /\ pc' = "done"
            /\ UNCHANGED status
       ELSE /\ status' = "Authenticating..."
            /\ pc' = "auth"
            /\ UNCHANGED yielded
    /\ UNCHANGED <<error, messages, token, two, payloads, trace, response, streamVars, assistantText, toolMap,
                   toolOrder, finalResponseId, emitted, firstRef, abortVars>>

\* GetToken going on to the request with whatever getToken returned
GetToken_NoCheck ==
    /\ pc = "auth"
    /\ trace' = Append(trace, "getToken")
    /\ \E tk \in {"", "jwt"} : token' = tk
    /\ pc' = "fetch"
    /\ status' = "Streaming..."
    /\ UNCHANGED <<error, messages, two, payloads, response, streamVars, asmVars, abortVars>>

\* token = await getToken(); no token throws, a token goes on to the request
GetToken ==
    /\ pc = "auth"
    /\ trace' = Append(trace, "getToken")
    /\ \E tk \in {"", "jwt"} :
         /\ token' = tk
         /\ IF tk = ""
            THEN Throw(Failure("NoToken", 0, <<>>)) /\ UNCHANGED status
            ELSE pc' = "fetch" /\ status' = "Streaming..." /\ UNCHANGED error
    /\ UNCHANGED <<messages, two, payloads, response, streamVars, asmVars, abortVars>>

\* response = await fetch(streamUrl, {..., signal: options.abortSignal})
Fetch ==
    /\ pc = "fetch"
    /\ trace' = Append(trace, "fetch")
    /\ IF aborted
       THEN Throw(Failure("AbortError", 0, <<>>)) /\ UNCHANGED <<response, body>>
       ELSE /\ \E r \in Responses :
                 /\ response' = r
                 /\ body' = IF r.ok /\ r.hasBody THEN r.text ELSE <<>>
            /\ pc' = "open"
            /\ UNCHANGED error
    /\ UNCHANGED <<status, messages, token, two, payloads, source, decoderPending, buffer, lines, readerLocked,
                   asmVars, abortVars>>

\* Open reading the body of any response as the event stream
Open_NoOkCheck ==
    /\ pc = "open"
    /\ IF ~response.hasBody
       THEN /\ Throw(Failure("NoStreamBody", 0, <<>>))
            /\ UNCHANGED <<source, readerLocked, body>>
       ELSE /\ readerLocked' = TRUE
            /\ source' = response.text
            /\ body' = response.text
            /\ pc' = "reading"
            /\ UNCHANGED error
    /\ UNCHANGED <<status, messages, token, two, payloads, trace, response, decoderPending, buffer,
                   lines, asmVars, abortVars>>

\* Open taking a missing body for a stream that has ended
Open_NoBodyCheck ==
    /\ pc = "open"
    /\ IF ~response.ok
       THEN /\ Throw(Failure("ChatRequestFailed", response.status, response.text))
            /\ trace' = Append(trace, "text")
            /\ UNCHANGED <<source, readerLocked>>
       ELSE /\ readerLocked' = TRUE
            /\ source' = body
            /\ pc' = "reading"
            /\ UNCHANGED <<trace, error>>
    /\ UNCHANGED <<status, messages, token, two, payloads, response, body, decoderPending, buffer,
                   lines, asmVars, abortVars>>

\* if (!response.ok) throw ...; then streamChat starts: getReader or throw
Open ==
    /\ pc = "open"
    /\ IF ~response.ok
       THEN /\ Throw(Failure("ChatRequestFailed", response.status, response.text))
            /\ trace' = Append(trace, "text")
            /\ UNCHANGED <<source, readerLocked>>
       ELSE IF ~response.hasBody
       THEN /\ Throw(Failure("NoStreamBody", 0, <<>>))
            /\ UNCHANGED <<trace, source, readerLocked>>
       ELSE /\ readerLocked' = TRUE
            /\ source' = body
            /\ pc' = "reading"
            /\ UNCHANGED <<trace, error>>
    /\ UNCHANGED <<status, messages, token, two, payloads, response, body, decoderPending, buffer, lines,
                   asmVars, abortVars>>

\* the abort signal fires while the request or the stream is in progress
Abort ==
    /\ pc \in {"fetch", "reading"}
    /\ ~aborted
    /\ aborted' = TRUE
    /\ yieldedAtAbort' = Len(yielded)
    /\ UNCHANGED <<splits, pc, status, error, messages, token, two, payloads, trace, response, streamVars, asmVars>>

\* where a read of the first n bytes of src cuts it: inside a character,
\* between the two newlines of a pair
CutKinds(src, n) ==
    (IF src[n] = "C3" THEN {"char"} ELSE {})
      \cup (IF n < Len(src) /\ src[n] = NL /\ src[n + 1] = NL THEN {"delimiter"} ELSE {})

\* ReadChunk treating what the buffer still holds at the end of the body as
\* a last frame
ReadChunk_FlushAtEnd ==
    /\ pc = "reading"
    /\ lines = <<>>
    /\ IndexOfBoundary(buffer) = 0
    /\ IF aborted
       THEN /\ Throw(Failure("AbortError", 0, <<>>))
            /\ UNCHANGED <<status, source, decoderPending, buffer, splits, lines>>
       ELSE IF source = <<>> /\ Trim(buffer) = <<>>
       THEN /\ pc' = "done"
            /\ status' = "Idle"
            /\ UNCHANGED <<error, source, decoderPending, buffer, splits, lines>>
       ELSE IF source = <<>>
       THEN /\ lines' = SplitLines(Trim(buffer))
            /\ buffer' = <<>>
            /\ UNCHANGED <<pc, status, error, source, decoderPending, splits>>
       ELSE \E n \in 1..Len(source) :
              LET d == Decode(decoderPending, SubSeq(source, 1, n)) IN
              /\ source' = SubSeq(source, n + 1, Len(source))
              /\ decoderPending' = d.pending
              /\ buffer' = buffer \o d.out
              /\ splits' = splits \cup CutKinds(source, n)
              /\ UNCHANGED <<pc, status, error, lines>>
    /\ UNCHANGED <<messages, token, two, payloads, trace, response, body, readerLocked,
                   asmVars, aborted, yieldedAtAbort>>

\* { done, value } = await reader.read(): rejected once the signal has fired,
\* done at the end of the body, else some bytes that are decoded and buffered
ReadChunk ==
    /\ pc = "reading"
    /\ lines = <<>>
    /\ IndexOfBoundary(buffer) = 0
    /\ IF aborted
       THEN /\ Throw(Failure("AbortError", 0, <<>>))
            /\ UNCHANGED <<status, source, decoderPending, buffer, splits>>
       ELSE IF source = <<>>
       THEN /\ pc' = "done"
            /\ status' = "Idle"
            /\ UNCHANGED <<error, source, decoderPending, buffer, splits>>
       ELSE \E n \in 1..Len(source) :
              LET d == Decode(decoderPending, SubSeq(source, 1, n)) IN
              /\ source' = SubSeq(source, n + 1, Len(source))
              /\ decoderPending' = d.pending
              /\ buffer' = buffer \o d.out
              /\ splits' = splits \cup CutKinds(source, n)
              /\ UNCHANGED <<pc, status, error>>
    /\ UNCHANGED <<messages, token, two, payloads, trace, response, body, lines, readerLocked, asmVars,
                   aborted, yieldedAtAbort>>

\* NextFrame taking whatever the buffer holds for a frame, terminated or not
NextFrame_Eager ==
    /\ pc = "reading"
    /\ lines = <<>>
    /\ buffer # <<>>
    /\ lines' = SplitLines(buffer)
    /\ buffer' = <<>>
    /\ UNCHANGED <<pc, status, error, messages, token, two, payloads, trace, response, source, body,
                   decoderPending, readerLocked, asmVars, abortVars>>

\* the while (boundary !== -1) loop takes the next frame off the buffer
NextFrame ==
    /\ pc = "reading"
    /\ lines = <<>>
    /\ IndexOfBoundary(buffer) # 0
    /\ lines' = FrameLines(buffer, IndexOfBoundary(buffer))
    /\ buffer' = AfterBoundary(buffer, IndexOfBoundary(buffer))
    /\ UNCHANGED <<pc, status, error, messages, token, two, payloads, trace, response, source, body,
                   decoderPending, readerLocked, asmVars, abortVars>>

\* the run handles one event streamChat yielded and yields the snapshot
Consume(ev) ==
    LET st == ApplyEvent(CurState, ev) IN
    /\ emitted' = Append(emitted, ev)
    /\ firstRef' = AddNew(firstRef, RefIds(ev))
    /\ assistantText' = st.text
    /\ toolMap' = st.map
    /\ toolOrder' = st.order
    /\ finalResponseId' = st.rid
    /\ IF st.threw
       THEN Throw(Failure("TypeError", 0, <<>>)) /\ UNCHANGED yielded
       ELSE yielded' = Append(yielded, Snapshot(st)) /\ UNCHANGED <<pc, error>>

\* one turn of  for (const line of chunk.split('\n'))
NextLine ==
    /\ pc = "reading"
    /\ lines # <<>>
    /\ lines' = Tail(lines)
    /\ payloads' = payloads \o LinePayloads(Head(lines))
    /\ IF LineEvents(Head(lines)) = <<>>
       THEN UNCHANGED <<pc, error, asmVars>>
       ELSE Consume(LineEvents(Head(lines))[1])
    /\ UNCHANGED <<status, messages, token, two, trace, response, source, body, decoderPending,
                   buffer, readerLocked, abortVars>>

Next ==
    \/ Start
    \/ GetToken
    \/ Fetch
    \/ Open
    \/ Abort
    \/ ReadChunk
    \/ NextFrame
    \/ NextLine

Spec == Init /\ [][Next]_vars

(***************************************************************************)
(* The assembler alone: the loop body applied to events drawn from         *)
(* AsmEvents, starting from the fresh run state.                           *)
(***************************************************************************)
InitAsm ==
    /\ pc = "reading"
    /\ status = "Streaming..."
    /\ error = NoError
    /\ messages = <<>>
    /\ trace = <<>>
    /\ response = NoResponse
    /\ source = <<>>
    /\ body = <<>>
    /\ decoderPending = <<>>
    /\ buffer = <<>>
    /\ lines = <<>>
    /\ assistantText = Str(<<>>)
    /\ toolMap = EmptyMap
    /\ toolOrder = <<>>
    /\ finalResponseId = Str(<<>>)
    /\ emitted = <<>>
    /\ yielded = <<>>
    /\ firstRef = <<>>
    /\ readerLocked = TRUE
    /\ aborted = FALSE
    /\ yieldedAtAbort = 0
    /\ splits = {}
    /\ token = ""
    /\ payloads = <<>>
    /\ two = TwoFresh

AsmStep ==
    /\ pc = "reading"
    /\ Len(emitted) < MaxEvents
    /\ \E ev \in AsmEvents : Consume(ev)
    /\ UNCHANGED <<status, messages, token, two, payloads, trace, response, streamVars, abortVars>>

NextAsm == AsmStep

SpecAsm == InitAsm /\ [][NextAsm]_vars

(***************************************************************************)
(* Two runs in progress at once: each step is one run handling one event   *)
(* of its own stream, the steps of the two runs interleaving freely.       *)
(***************************************************************************)
TwoEvents ==
    { Token(<<"a">>),
      ToolStart("A", "search", Obj(<<"q:x">>)),
      ToolEnd("A", "search", Obj(<<"n:3">>)),
      ToolEnd("B", "fetch", Undef),
      Final(Str(<<"F">>), NoCalls, Str(<<"r1">>)),
      Final(Str(<<>>),
            Calls(<<Call("B", "fetch", Obj(<<"u:1">>), Undef),
                    Call("A", "search", Undef, Obj(<<"n:3">>))>>),
            Str(<<"r2">>)) }

\* run r handles the event ev of its stream and yields the snapshot
TwoConsume(r, ev) ==
    LET st == ApplyEvent(two.inst[InstanceOf(r)], ev) IN
    two' = [inst |-> [two.inst EXCEPT ![InstanceOf(r)] = st],
            emitted |-> [two.emitted EXCEPT ![r] = Append(@, ev)],
            yielded |-> [two.yielded EXCEPT
                           ![r] = IF st.threw THEN @ ELSE Append(@, Snapshot(st))],
            failed |-> [two.failed EXCEPT ![r] = st.threw]]

TwoStep ==
    /\ \E r \in Runs :
         /\ ~two.failed[r]
         /\ Len(two.emitted[r]) < MaxEventsTwo
         /\ \E ev \in TwoEvents : TwoConsume(r, ev)
    /\ UNCHANGED <<pc, status, error, messages, token, payloads, trace, response, streamVars, asmVars,
                   abortVars>>

NextTwo == TwoStep

SpecTwo == InitAsm /\ [][NextTwo]_vars

(***************************************************************************)
(* streamChat on a body that arrives in a single read.                     *)
(***************************************************************************)
RECURSIVE EventsOfLines(_)
\* the events the lines of one frame yield, in line order
EventsOfLines(ls) ==
    IF ls = <<>> THEN <<>> ELSE LineEvents(Head(ls)) \o EventsOfLines(Tail(ls))

RECURSIVE EventsOfBuffer(_)
\* the while (boundary !== -1) loop run to its end on one buffer
EventsOfBuffer(buf) ==
    IF IndexOfBoundary(buf) = 0 THEN <<>>
    ELSE EventsOfLines(FrameLines(buf, IndexOfBoundary(buf)))
           \o EventsOfBuffer(AfterBoundary(buf, IndexOfBoundary(buf)))

\* the events streamChat yields when one read delivers all the bytes
SingleRead(bytes) == EventsOfBuffer(Decode(<<>>, bytes).out)

(***************************************************************************)
(* Properties.                                                             *)
(***************************************************************************)
Last(seq) == seq[Len(seq)]
IsPrefix(a, b) == Len(a) <= Len(b) /\ SubSeq(b, 1, Len(a)) = a
Range(seq) == {seq[i] : i \in 1..Len(seq)}
RecognizedTypes == {"token", "tool_start", "tool_end", "final"}

\* a step that handled one more event
Handled == Len(emitted') = Len(emitted) + 1

\* C1: after any sequence of tool_start, tool_end and final events applied to
\* a fresh run state, toolOrder has no duplicate id, holds exactly the keys
\* of toolMap, and lists the ids in the order they were first referenced.
C1_ToolOrderFirstReference ==
    /\ \A i, j \in 1..Len(toolOrder) : i # j => toolOrder[i] # toolOrder[j]
    /\ Range(toolOrder) = DOMAIN toolMap
    /\ toolOrder = firstRef

\* both ids are in the order, B first, after a tool_start, a tool_end and a
\* final with tool_calls, one of which referred to an id already present
C1_Witness ==
    /\ toolOrder = <<"B", "A">>
    /\ {"tool_start", "tool_end", "final"} \subseteq {e.type : e \in Range(emitted)}
    /\ \E e \in Range(emitted) : e.type = "final" /\ e.tool_calls.t = "array"
    /\ Len(emitted) >= 4

\* C2: the run yields exactly one snapshot for every event streamChat emits,
\* the k-th snapshot being the one derived from the first k events folded in
\* arrival order, and none on stream exhaustion.
C2_OneSnapshotPerEvent ==
    readerLocked =>
      /\ Len(yielded) = Len(emitted)
      /\ \A k \in 1..Len(yielded) :
           yielded[k] = Snapshot(FoldEvents(FreshState, SubSeq(emitted, 1, k)))

\* C3: however the reads cut the body into chunks, streamChat yields the
\* events a single read of the whole body yields, in the same order: a
\* prefix of them while the run is under way, all of them once the stream
\* is exhausted.
C3_SplitsYieldSingleReadEvents ==
    readerLocked =>
      /\ IsPrefix(emitted, SingleRead(body))
      /\ pc = "done" => emitted = SingleRead(body)

\* a body read to its end whose reads cut a character in two and a
\* terminator in two, and that yielded the two-byte character in a token
C3_Witness ==
    /\ pc = "done"
    /\ splits = {"char", "delimiter"}
    /\ Len(emitted) >= 2
    /\ \E e \in Range(emitted) : e.type = "token" /\ e.content = Str(<<"eacute">>)

\* C4: when the signal fires after a snapshot was yielded and before the
\* stream ends (bytes of the body are still to come), no further snapshot is
\* yielded, the run does not end with an error, and the run ends with the
\* reader released.
C4_CancelEndsCleanly ==
    (aborted /\ yieldedAtAbort >= 1 /\ source # <<>>) =>
      /\ Len(yielded) = yieldedAtAbort
      /\ pc # "failed"
      /\ pc \in {"done", "failed"} => ~readerLocked

\* C5: no payload makes the run end with an error.
C5_NoPayloadFailsTheRun == ~(pc = "failed" /\ error.kind = "TypeError")

\* the line at the head of lines is a data line whose payload is not JSON
HeadFailsToParse ==
    /\ lines # <<>>
    /\ StartsWithData(Head(lines))
    /\ PayloadOf(Head(lines)) # <<>>
    /\ ~IsJsonText(PayloadOf(Head(lines)))

NotJsonThenToken ==
    DataLine(<<"n", "o">>) \o Terminator \o DataLine(<<"{", "T", "a", "}">>) \o Terminator

\* C6: a payload that is not JSON yields no event and no snapshot and leaves
\* the run state as it was, and the run goes on: the token payload of the
\* next frame yields one token event, which is applied.
C6_ParseFailureDropped ==
    /\ [][(pc = "reading" /\ HeadFailsToParse) =>
            /\ UNCHANGED <<assistantText, toolMap, toolOrder, finalResponseId,
                           emitted, yielded, pc, error>>
            /\ lines' # lines => lines' = Tail(lines)]_vars
    /\ []((pc = "done" /\ body = NotJsonThenToken) =>
            /\ emitted = <<Token(<<"a">>)>>
            /\ assistantText = Str(<<"a">>)
            /\ yielded = <<Snapshot(RunState(Str(<<"a">>), EmptyMap, <<>>, Str(<<>>)))>>)

\* the body "data:no\n\ndata:{token a}\n\n" read to its end
C6_Witness ==
    /\ pc = "done"
    /\ body = NotJsonThenToken
    /\ Len(emitted) = 1

\* C7: an object whose type is none of the four, or that has no type, yields
\* no event and no snapshot.
C7_UnknownTypeDropped ==
    /\ \A i \in 1..Len(emitted) : emitted[i].type \in RecognizedTypes
    /\ readerLocked => Len(yielded) <= Cardinality({i \in 1..Len(emitted) :
                                          emitted[i].type \in RecognizedTypes})

\* the events are tool_start(id) at i, tool_end(id) at j, a final with
\* non-empty content and no tool_calls at the end, and tokens elsewhere
C8_Pattern(evs, i, j) ==
    /\ 1 <= i /\ i < j /\ j < Len(evs)
    /\ evs[i].type = "tool_start"
    /\ evs[j].type = "tool_end"
    /\ evs[j].id = evs[i].id
    /\ Last(evs).type = "final"
    /\ Last(evs).content.t = "string"
    /\ Last(evs).content.v # <<>>
    /\ Last(evs).tool_calls.t = "undefined"
    /\ \A k \in 1..(Len(evs) - 1) : k \notin {i, j} => evs[k].type = "token"

\* the part is the tool-call part of id with these args and this result
C8_IsToolPart(part, id, args, result) ==
    /\ part.type = "tool-call"
    /\ part.toolCallId = id
    /\ part.args = args
    /\ part.result = result
    /\ part.hasResult = (result # Undef)

\* C8 as stated: after tool_start(id, input), tool_end(id, output) and a
\* final with non-empty content, tokens interleaved, the last snapshot is
\* the tool-call part of id with args = input (an absent input read as {})
\* and result = output, then one text part equal to the final content.
C8_AsStated ==
    \A i, j \in 1..Len(emitted) :
      C8_Pattern(emitted, i, j) =>
        LET parts == Last(yielded).content IN
        /\ Len(parts) = 2
        /\ C8_IsToolPart(parts[1], emitted[i].id,
                         Coalesce(emitted[i].input, EmptyObj), emitted[j].output)
        /\ parts[2] = TextPart(Last(emitted).content)

\* C8 amended: the part's args are the input when the input is an object and
\* {} otherwise; the text part equal to the final content follows unless
\* that content is white space only, and then the tool-call part is alone.
\* No token text survives the final.
C8_FinalSnapshotAfterToolRoundTrip ==
    \A i, j \in 1..Len(emitted) :
      C8_Pattern(emitted, i, j) =>
        LET parts == Last(yielded).content
            input == emitted[i].input
            content == Last(emitted).content
        IN
        /\ Len(yielded) = Len(emitted)
        /\ C8_IsToolPart(parts[1], emitted[i].id,
                         IF input.t = "object" THEN input ELSE EmptyObj,
                         emitted[j].output)
        /\ assistantText = content
        /\ IF \E c \in Range(content.v) : c \notin Whitespace
           THEN parts = <<parts[1], TextPart(content)>>
           ELSE parts = <<parts[1]>>

\* tool_start(A, {q:x}), a token, tool_end(A, {n:3}), final("F") were applied
C8_Witness ==
    /\ Len(emitted) = 4
    /\ C8_Pattern(emitted, 1, 3)
    /\ emitted[1].input = Obj(<<"q:x">>)
    /\ emitted[2].type = "token"
    /\ emitted[3].output = Obj(<<"n:3">>)
    /\ Last(emitted).content = Str(<<"F">>)
    /\ Len(Last(yielded).content) = 2

\* the positions of the tool-call parts of id among parts
C9_PartsOf(parts, id) ==
    {k \in 1..Len(parts) : parts[k].type = "tool-call" /\ parts[k].toolCallId = id}

\* C9: a tool_end for an id that has no entry creates the entry with
\* args = {} and result = output and appends the id to toolOrder, and the
\* snapshot then holds exactly one tool part for the id.
C9_ToolEndBeforeStart ==
    [][(Handled /\ Last(emitted)'.type = "tool_end"
          /\ Last(emitted)'.id \notin DOMAIN toolMap) =>
         /\ toolMap'[Last(emitted)'.id] =
              ToolState(Last(emitted)'.id, Last(emitted)'.name, EmptyObj, TRUE,
                        Last(emitted)'.output)
         /\ toolOrder' = Append(toolOrder, Last(emitted)'.id)
         /\ Len(yielded') = Len(yielded) + 1
         /\ Cardinality(C9_PartsOf(Last(yielded)'.content, Last(emitted)'.id)) = 1
         /\ \A k \in C9_PartsOf(Last(yielded)'.content, Last(emitted)'.id) :
              C8_IsToolPart(Last(yielded)'.content[k], Last(emitted)'.id, EmptyObj,
                            Last(emitted)'.output)]_vars

\* a lone tool_end(A, output {n:3}) was applied
C9_Witness ==
    /\ emitted = <<ToolEnd("A", "search", Obj(<<"n:3">>))>>
    /\ toolOrder = <<"A">>
    /\ Len(yielded) = 1
    /\ Len(yielded[1].content) = 1

\* C10: a final with non-empty content makes assistantText exactly that
\* content, a final with absent or empty content leaves it as it was; after
\* the tokens "a", "b" and a final without content the snapshot is the one
\* text part "ab".
C10_FinalContentOverwrites ==
    /\ [][(Handled /\ Last(emitted)'.type = "final") =>
            assistantText' =
              IF Last(emitted)'.content.t = "string" /\ Last(emitted)'.content.v # <<>>
              THEN Last(emitted)'.content
              ELSE assistantText]_vars
    /\ [](emitted = <<Token(<<"a">>), Token(<<"b">>), Final(Undef, NoCalls, Undef)>> =>
            Last(yielded).content = <<TextPart(Str(<<"a", "b">>))>>)

\* the tokens "a", "b" and a final without content were applied, leaving
\* the text part "ab", and then a final whose content "F" replaced the text
C10_Witness ==
    /\ Len(emitted) = 4
    /\ SubSeq(emitted, 1, 3) = <<Token(<<"a">>), Token(<<"b">>), Final(Undef, NoCalls, Undef)>>
    /\ yielded[3].content = <<TextPart(Str(<<"a", "b">>))>>
    /\ emitted[4] = Final(Str(<<"F">>), NoCalls, Str(<<"r1">>))
    /\ assistantText = Str(<<"F">>)

\* the parts of a snapshot, the last snapshot the run yielded
LastParts == Last(yielded).content

\* the tool-call parts of id among parts
PartsFor(parts, id) ==
    {parts[k] : k \in C9_PartsOf(parts, id)}

\* C11: after a final event whose tool_calls has an entry with no output,
\* that tool call reads as completed, not as still running, in the snapshot
\* and in the rendered tool part, just as if an output had been supplied.
C11_FinalizedCallReadsCompleted ==
    (/\ pc = "reading"
     /\ emitted # <<>>
     /\ Last(emitted).type = "final"
     /\ Last(emitted).tool_calls.t = "array")
    => \A i \in 1..Len(Last(emitted).tool_calls.items) :
         \E part \in PartsFor(LastParts, Last(emitted).tool_calls.items[i].id) :
           /\ part.hasResult
           /\ ToolPartLabel(part) = "(completed)"

\* the snapshot starts with one tool-call part per id of toolOrder, in the
\* order of toolOrder
C12_ToolPartsInOrder ==
    /\ Len(LastParts) >= Len(toolOrder)
    /\ \A i \in 1..Len(toolOrder) :
         /\ LastParts[i].type = "tool-call"
         /\ LastParts[i].toolCallId = toolOrder[i]
         /\ LastParts[i].toolName = toolMap[toolOrder[i]].name

\* the snapshot ends with the text part carrying assistantText / has none
C12_TextTrailing ==
    /\ Len(LastParts) = Len(toolOrder) + 1
    /\ Last(LastParts) = TextPart(assistantText)

C12_TextOmitted == Len(LastParts) = Len(toolOrder)

\* C12 as stated: every snapshot is the tool-call parts in toolOrder order
\* followed by one text part carrying assistantText, the text part being
\* omitted exactly when assistantText is the empty string and at least one
\* tool part exists.
C12_AsStated ==
    (pc = "reading" /\ yielded # <<>>) =>
      /\ C12_ToolPartsInOrder
      /\ IF assistantText.v = <<>> /\ toolOrder # <<>>
         THEN C12_TextOmitted ELSE C12_TextTrailing

\* C12: every snapshot is the tool-call parts in toolOrder order followed by
\* one text part carrying assistantText, the text part being omitted exactly
\* when assistantText holds nothing but white space (the empty string
\* included) and at least one tool part exists.
C12_SnapshotLayout ==
    (pc = "reading" /\ yielded # <<>>) =>
      /\ C12_ToolPartsInOrder
      /\ IF (\A i \in 1..Len(assistantText.v) : assistantText.v[i] \in Whitespace)
            /\ toolOrder # <<>>
         THEN C12_TextOmitted ELSE C12_TextTrailing

\* a white-space text with two tool parts and no text part
C12_Witness ==
    /\ pc = "reading"
    /\ assistantText = Str(<<" ">>)
    /\ Len(toolOrder) = 2
    /\ Len(LastParts) = 2
    /\ LastParts[1].toolCallId = toolOrder[1]

\* C13: when the extracted user prompt is empty, the run yields exactly one
\* snapshot, the fixed "please enter a message" text part, and is then
\* complete, having requested no token, made no network request and raised
\* no error.
C13_EmptyPromptAsksForInput ==
    (extractUserPrompt(messages) = <<>> /\ pc # "start") =>
      /\ pc = "done"
      /\ Len(yielded) = 1
      /\ yielded[1].content = <<TextPart(Str(<<"Please enter a message.">>))>>
      /\ token = ""
      /\ trace = <<>>
      /\ response = NoResponse
      /\ error = NoError

\* a prompt of white space only was answered by the request for input
C13_Witness ==
    /\ messages # <<>>
    /\ extractUserPrompt(messages) = <<>>
    /\ pc = "done"
    /\ Len(yielded) = 1

\* C14: for a non-empty prompt the token is requested before the POST is
\* issued; when the token provider returns nothing the run fails with the
\* authentication error, having issued no POST and yielded no snapshot.
C14_TokenBeforeRequest ==
    /\ \A i \in 1..Len(trace) :
         trace[i] = "fetch" => \E j \in 1..(i - 1) : trace[j] = "getToken"
    /\ (extractUserPrompt(messages) # <<>> /\ pc \notin {"start", "auth"}) =>
         trace # <<>> /\ trace[1] = "getToken"
    /\ ("getToken" \in Range(trace) /\ token = "") =>
         /\ pc = "failed"
         /\ error.kind = "NoToken"
         /\ "fetch" \notin Range(trace)
         /\ response = NoResponse
         /\ yielded = <<>>

\* getToken returned nothing and the run has failed
C14_Witness ==
    /\ trace = <<"getToken">>
    /\ token = ""
    /\ pc = "failed"

\* C15: when the response status is not 2xx the run fails with an error
\* carrying the status and the raw body text; the body is never decoded as
\* an event stream and no snapshot is yielded.
C15_RequestFailureRaised ==
    (response # NoResponse /\ ~response.ok /\ pc # "open") =>
      /\ pc = "failed"
      /\ error = Failure("ChatRequestFailed", response.status, response.text)
      /\ Last(trace) = "text"
      /\ ~readerLocked
      /\ source = <<>> /\ buffer = <<>> /\ decoderPending = <<>> /\ lines = <<>>
      /\ emitted = <<>>
      /\ yielded = <<>>

\* a 401 whose body text is a well-formed frame has failed the run
C15_Witness ==
    /\ pc = "failed"
    /\ error.kind = "ChatRequestFailed"
    /\ error.status = 401
    /\ IndexOfBoundary(error.detail) # 0

\* C16: when a successful response has no readable body the run fails with
\* the stream-unavailable error before any read is attempted and before any
\* event is emitted; it yields no snapshot.
C16_NoBodyFails ==
    (response.ok /\ ~response.hasBody /\ pc # "open") =>
      /\ pc = "failed"
      /\ error.kind = "NoStreamBody"
      /\ ~readerLocked
      /\ splits = {} /\ buffer = <<>> /\ decoderPending = <<>>
      /\ "text" \notin Range(trace)
      /\ emitted = <<>>
      /\ yielded = <<>>

\* a 2xx response without a body has failed the run
C16_Witness ==
    /\ response.ok
    /\ ~response.hasBody
    /\ pc = "failed"
    /\ error.kind = "NoStreamBody"

\* the bytes of the body the reads have delivered so far
Delivered == SubSeq(body, 1, Len(body) - Len(source))

RECURSIVE Unterminated(_)
\* the text after the last frame terminator of a text
Unterminated(text) ==
    IF IndexOfBoundary(text) = 0 THEN text
    ELSE Unterminated(AfterBoundary(text, IndexOfBoundary(text)))

\* C17: no payload of a frame is emitted before the blank line that ends the
\* frame has been read: the events emitted so far are events of the frames
\* terminated within the bytes delivered so far.  The text after the last
\* complete terminator stays in the buffer across reads, and once the loop
\* is waiting for the next read every terminated frame has been emitted,
\* wherever the reads cut the body.
C17_NoPayloadBeforeTerminator ==
    readerLocked =>
      /\ IsPrefix(emitted, SingleRead(Delivered))
      /\ pc = "reading" =>
           Unterminated(buffer) = Unterminated(Decode(<<>>, Delivered).out)
      /\ (pc = "reading" /\ lines = <<>> /\ IndexOfBoundary(buffer) = 0) =>
           /\ emitted = SingleRead(Delivered)
           /\ buffer = Unterminated(Decode(<<>>, Delivered).out)

\* a read ended between the two newlines of a terminator; the frame was
\* emitted after the next read, which also brought the start of a further
\* frame that waits in the buffer
C17_Witness ==
    /\ "delimiter" \in splits
    /\ pc = "reading"
    /\ Len(emitted) = 1
    /\ lines = <<>>
    /\ buffer # <<>>
    /\ IndexOfBoundary(buffer) = 0
    /\ source # <<>>

\* the snapshots a run yields when it handles the events evs on its own
AloneSnapshots(evs) ==
    [k \in 1..Len(evs) |-> Snapshot(FoldEvents(FreshState, SubSeq(evs, 1, k)))]

\* C18: two runs whose steps interleave in any order each own an
\* (assistantText, toolMap, toolOrder, responseId) state that starts empty;
\* the snapshots each run yields are the ones it would yield running alone,
\* and no event of one run changes the state or the snapshots of the other.
C18_RunsAreIsolated ==
    \A r \in Runs :
      /\ two.emitted[r] = <<>> => two.inst[r] = FreshState
      /\ two.inst[r] = FoldEvents(FreshState, two.emitted[r])
      /\ two.yielded[r] = AloneSnapshots(two.emitted[r])

\* both runs have handled two events and hold different text and tools
C18_Witness ==
    /\ Len(two.emitted[1]) = 2
    /\ Len(two.emitted[2]) = 2
    /\ two.inst[1].text = Str(<<"a">>)
    /\ two.inst[1].order = <<"A">>
    /\ two.inst[2].text = Str(<<"F">>)
    /\ two.inst[2].order = <<"B">>

\* C19: a tool_start(id, name, input) sets toolMap[id] to the id, the name,
\* args = input (or {} when the input is absent) and no result, so that the
\* tool part reads as running, and appends the id to toolOrder only when the
\* id had no entry before.
C19_ToolStartSetsEntry ==
    [][(Handled /\ Last(emitted)'.type = "tool_start") =>
         LET ev == Last(emitted)' IN
         /\ ev.id \in DOMAIN toolMap'
         /\ toolMap'[ev.id].id = ev.id
         /\ toolMap'[ev.id].name = ev.name
         /\ toolMap'[ev.id].args = (IF ev.input = Undef THEN EmptyObj ELSE ev.input)
         /\ ~toolMap'[ev.id].hasResult
         /\ toolMap'[ev.id].result = Undef
         /\ \A k \in DOMAIN toolMap : k # ev.id => toolMap'[k] = toolMap[k]
         /\ toolOrder' = (IF ev.id \in DOMAIN toolMap THEN toolOrder
                          ELSE Append(toolOrder, ev.id))
         /\ \A part \in PartsFor(Last(yielded)'.content, ev.id) :
              ToolPartLabel(part) = "(running...)"
         /\ PartsFor(Last(yielded)'.content, ev.id) # {}]_vars

\* a tool_start for an id that already had a result left the order alone
\* and the entry without a result
C19_Witness ==
    /\ Len(emitted) = 3
    /\ emitted[1].type = "tool_start" /\ emitted[1].id = "A"
    /\ emitted[2].type = "tool_end" /\ emitted[2].id = "A"
    /\ emitted[3].type = "tool_start" /\ emitted[3].id = "A"
    /\ toolOrder = <<"A">>
    /\ ~toolMap["A"].hasResult

\* C20: a tool_end(id, name, output) for an id that already has an entry
\* keeps the args of the entry, sets its result to output and leaves the
\* position of the id in toolOrder as it was.
C20_ToolEndKeepsArgs ==
    [][(/\ Handled
        /\ Last(emitted)'.type = "tool_end"
        /\ Last(emitted)'.id \in DOMAIN toolMap) =>
         LET ev == Last(emitted)' IN
         /\ toolMap'[ev.id].args = toolMap[ev.id].args
         /\ toolMap'[ev.id].hasResult
         /\ toolMap'[ev.id].result = ev.output
         /\ toolOrder' = toolOrder]_vars

\* the entry of A, second in the order, kept the args of its tool_start
\* when the tool_end set the result
C20_Witness ==
    /\ Len(emitted) = 3
    /\ emitted[3].type = "tool_end" /\ emitted[3].id = "A"
    /\ toolOrder = <<"B", "A">>
    /\ toolMap["A"].args = Obj(<<"q:x">>)
    /\ toolMap["A"].result = Obj(<<"n:3">>)

\* the decoded text of the frames streamChat has taken off the buffer
ConsumedText ==
    LET text == Decode(<<>>, Delivered).out
    IN SubSeq(text, 1, Len(text) - Len(buffer))

\* the line begins with the five characters d a t a :
BeginsWithData(line) ==
    /\ Len(line) >= 5
    /\ line[1] = "d" /\ line[2] = "a" /\ line[3] = "t" /\ line[4] = "a" /\ line[5] = ":"

\* what is left of the line after its first five characters, from the first
\* to the last character that is not white space
TrimmedRemainder(line) ==
    LET solid == {i \in 6..Len(line) : line[i] \notin Whitespace}
    IN IF solid = {} THEN <<>>
       ELSE SubSeq(line, CHOOSE i \in solid : \A j \in solid : i <= j,
                         CHOOSE i \in solid : \A j \in solid : j <= i)

\* the payloads of the lines ls: the non-empty trimmed remainders of the
\* lines that begin with "data:", one per line, in line order
PayloadsOfLines(ls) ==
    LET rest == [i \in 1..Len(ls) |->
                   IF BeginsWithData(ls[i]) THEN TrimmedRemainder(ls[i]) ELSE <<>>]
    IN SelectSeq(rest, LAMBDA r : r # <<>>)

RECURSIVE PayloadsOfRawFrames(_)
\* the payloads of the frames of a text, a frame's lines being the pieces of
\* the frame between newlines
PayloadsOfRawFrames(text) ==
    IF IndexOfBoundary(text) = 0 THEN <<>>
    ELSE PayloadsOfLines(SplitLines(SubSeq(text, 1, IndexOfBoundary(text) - 1)))
           \o PayloadsOfRawFrames(AfterBoundary(text, IndexOfBoundary(text)))

RECURSIVE PayloadsOfFrames(_)
\* the payloads of the frames of a text, a frame's lines being the lines of
\* the frame stripped of the white space around it
PayloadsOfFrames(text) ==
    IF IndexOfBoundary(text) = 0 THEN <<>>
    ELSE PayloadsOfLines(FrameLines(text, IndexOfBoundary(text)))
           \o PayloadsOfFrames(AfterBoundary(text, IndexOfBoundary(text)))

\* C21 as stated: the payloads extracted from a frame are exactly the
\* trimmed remainders of those of its lines that begin with "data:" and have
\* a non-empty trimmed remainder, one per such line in line order; a frame
\* with no such line yields nothing.
C21_AsStated ==
    (readerLocked /\ lines = <<>> /\ pc \in {"reading", "done"}) =>
      payloads = PayloadsOfRawFrames(ConsumedText)

\* C21: the payloads extracted from a frame are exactly the trimmed
\* remainders of those lines of the frame, taken after the frame as a whole
\* has been stripped of leading and trailing white space, that begin with
\* "data:" and have a non-empty trimmed remainder, one per such line in line
\* order; a frame with no such line yields nothing.
C21_PayloadsOfDataLines ==
    (readerLocked /\ lines = <<>> /\ pc \in {"reading", "done"}) =>
      payloads = PayloadsOfFrames(ConsumedText)

\* a frame that starts with a space and has three data lines, the last
\* with nothing but a space after "data:", gave two payloads; a frame of two
\* data lines gave two more
C21_Witness ==
    /\ pc = "done"
    /\ Len(body) > 0
    /\ body[1] = " "
    /\ payloads = << <<"null">>, <<"{", "}">>, <<"{", "Kend", "}">>, <<"{", "Kfinal", "}">> >>

\* C22: assistantText changes only on a token event, when it becomes the old
\* text followed by the token content, or on a final event with non-empty
\* content, when it becomes that content; tool_start and tool_end events
\* leave assistantText and responseId unchanged, and token events leave
\* toolMap, toolOrder and responseId unchanged.
C22_TextAndFrameEffects ==
    [][Handled =>
         LET ev == Last(emitted)' IN
         /\ assistantText' # assistantText =>
              \/ /\ ev.type = "token"
                 /\ assistantText'.v = assistantText.v \o ev.content.v
              \/ /\ ev.type = "final"
                 /\ ev.content.t = "string" /\ ev.content.v # <<>>
                 /\ assistantText' = ev.content
         /\ ev.type = "token" =>
              /\ assistantText'.v = assistantText.v \o ev.content.v
              /\ UNCHANGED <<toolMap, toolOrder, finalResponseId>>
         /\ (ev.type = "final" /\ ev.content.t = "string" /\ ev.content.v # <<>>) =>
              assistantText' = ev.content
         /\ ev.type \in {"tool_start", "tool_end"} =>
              UNCHANGED <<assistantText, finalResponseId>>]_vars

\* a token was appended to the content of a final, between tool events
C22_Witness ==
    /\ Len(emitted) = 4
    /\ emitted[1].type = "tool_start"
    /\ emitted[2].type = "final"
    /\ emitted[3].type = "token"
    /\ emitted[4].type = "tool_end"
    /\ assistantText = Str(<<"F", "a">>)
    /\ finalResponseId = Str(<<"r1">>)

\* the response_id of the last final of evs that carries a non-empty one,
\* the empty string when there is none
LatestResponseId(evs) ==
    LET carrying == {i \in 1..Len(evs) :
                       /\ evs[i].type = "final"
                       /\ evs[i].response_id.t = "string"
                       /\ evs[i].response_id.v # <<>>}
    IN IF carrying = {} THEN Str(<<>>)
       ELSE evs[CHOOSE i \in carrying : \A j \in carrying : j <= i].response_id

\* C23: responseId is empty until a final event with a non-empty response_id
\* is applied and from then on equals the response_id of the most recent
\* such final (a final without response_id never resets it); every snapshot
\* carries the responseId current when it was yielded.
C23_ResponseIdIsLatest ==
    /\ finalResponseId = LatestResponseId(emitted)
    /\ pc = "reading" =>
         \A k \in 1..Len(yielded) :
           yielded[k].response_id = LatestResponseId(SubSeq(emitted, 1, k))

\* r1 was replaced by r2 and kept across a final without response_id
C23_Witness ==
    /\ Len(emitted) = 4
    /\ emitted[2].type = "final" /\ emitted[2].response_id = Str(<<"r1">>)
    /\ emitted[3].type = "final" /\ emitted[3].response_id = Str(<<"r2">>)
    /\ emitted[4].type = "final" /\ emitted[4].response_id = Undef
    /\ yielded[1].response_id = Str(<<>>)
    /\ Last(yielded).response_id = Str(<<"r2">>)

\* the snapshot parts show the tool call id with a result
ShownCompleted(parts, id) ==
    \E part \in PartsFor(parts, id) : ~isRunning(part)

\* the event replaces the entry of id by one that has no result: a
\* tool_start for id, a tool_end for id without output, or a final whose
\* last tool_calls entry for id has no output
ReplacesWithoutResult(ev, id) ==
    \/ ev.type = "tool_start" /\ ev.id = id
    \/ ev.type = "tool_end" /\ ev.id = id /\ ev.output = Undef
    \/ /\ ev.type = "final"
       /\ ev.tool_calls.t = "array"
       /\ LET its == ev.tool_calls.items
              mine == {i \in 1..Len(its) : its[i].id = id}
          IN /\ mine # {}
             /\ its[CHOOSE i \in mine : \A j \in mine : j <= i].output = Undef

C25_StatusEndsIdle ==
    pc \in {"done", "failed"} => status = "Idle"

\* C26: text left in the buffer when the stream ends, a last frame not
\* followed by a blank line, is discarded: at the end of the run the events
\* emitted and the payloads extracted are those of the terminated frames
\* only, the unterminated text is still in the buffer, and no event of it
\* has reached the run state.
C26_UnterminatedTailDiscarded ==
    pc = "done" /\ readerLocked =>
      LET text == Decode(<<>>, body).out
          tail == Unterminated(text)
          framed == SubSeq(text, 1, Len(text) - Len(tail))
      IN /\ buffer = tail
         /\ payloads = PayloadsOfFrames(framed)
         /\ emitted = SingleRead(body)
         /\ CurState = FoldEvents(FreshState, SingleRead(body))
         /\ Len(yielded) = Len(emitted)

\* a token frame followed by a final with tool_calls that has no blank line
\* after it: the stream ended, the token was applied, the final was not
C26_Witness ==
    /\ pc = "done"
    /\ buffer = DataLine(<<" ", "{", "Kcalls", "}", " ">>) \o <<NL>>
    /\ Len(emitted) = 1
    /\ emitted[1].type = "token"
    /\ toolOrder = <<>>
    /\ Len(yielded) = 1

\* the event gives the entry of id new args: a tool_start for id, or a final
\* with a tool_calls entry for id that carries an input
SuppliesArgs(ev, id) ==
    \/ ev.type = "tool_start" /\ ev.id = id
    \/ /\ ev.type = "final"
       /\ ev.tool_calls.t = "array"
       /\ \E i \in 1..Len(ev.tool_calls.items) :
            ev.tool_calls.items[i].id = id /\ ev.tool_calls.items[i].input # Undef

\* C27: the args a tool_start with an input recorded for an id are never
\* lost: after any later tool_end or final tool_calls entry for the id that
\* carries no input, the args of the id still equal the recorded input.
C27_ArgsNeverLost ==
    pc = "reading" =>
      \A i \in 1..Len(emitted) :
        (/\ emitted[i].type = "tool_start"
         /\ emitted[i].input # Undef
         /\ \A k \in (i + 1)..Len(emitted) : ~SuppliesArgs(emitted[k], emitted[i].id))
        => toolMap[emitted[i].id].args = emitted[i].input

\* the ids of the tool-call parts of a snapshot, in part order
ToolIdsOf(snapshot) ==
    LET tools == SelectSeq(snapshot.content, LAMBDA part : part.type = "tool-call")
    IN [i \in 1..Len(tools) |-> tools[i].toolCallId]

\* C28: every snapshot has at least one part and at most one text part, the
\* text part, when there is one, is the last part, after all tool-call
\* parts, and there is exactly one tool-call part per id of toolOrder.
C28_SnapshotShape ==
    /\ \A k \in 1..Len(yielded) :
         LET parts == yielded[k].content IN
         /\ Len(parts) >= 1
         /\ \A i \in 1..Len(parts) : parts[i].type \in {"text", "tool-call"}
         /\ \A i \in 1..(Len(parts) - 1) : parts[i].type = "tool-call"
         /\ \A i, j \in 1..Len(parts) :
              (/\ i # j
               /\ parts[i].type = "tool-call"
               /\ parts[j].type = "tool-call") => parts[i].toolCallId # parts[j].toolCallId
    /\ (pc = "reading" /\ yielded # <<>>) =>
         /\ \A i \in 1..Len(toolOrder) :
              Cardinality(C9_PartsOf(LastParts, toolOrder[i])) = 1
         /\ Len(ToolIdsOf(Last(yielded))) = Len(toolOrder)

\* snapshots of each shape: a lone text part, tool parts only, tool parts
\* followed by the text part
C28_Witness ==
    /\ Len(yielded) = 4
    /\ Len(yielded[1].content) = 1 /\ yielded[1].content[1].type = "text"
    /\ Len(yielded[3].content) = 2 /\ yielded[3].content[2].type = "tool-call"
    /\ Len(yielded[4].content) = 3 /\ yielded[4].content[3].type = "text"

\* C29: toolOrder is append-only: across consecutive snapshots the tool-call
\* ids of the earlier snapshot are a prefix of those of the later one, so a
\* tool call never disappears and never changes position once shown.
C29_ToolIdsOnlyGrow ==
    /\ \A k \in 1..(Len(yielded) - 1) :
         IsPrefix(ToolIdsOf(yielded[k]), ToolIdsOf(yielded[k + 1]))
    /\ (pc = "reading" /\ yielded # <<>>) => ToolIdsOf(Last(yielded)) = toolOrder

\* B was shown first and stayed first when A was appended and when later
\* events referred to both again
C29_Witness ==
    /\ Len(yielded) = 4
    /\ ToolIdsOf(yielded[1]) = <<"B">>
    /\ ToolIdsOf(yielded[2]) = <<"B", "A">>
    /\ emitted[3].type = "tool_start" /\ emitted[3].id = "B"
    /\ emitted[4].type = "final" /\ emitted[4].tool_calls.t = "array"
    /\ ToolIdsOf(yielded[4]) = <<"B", "A">>

\* C30: handling the same tool_start, tool_end or final event a second time
\* in a row leaves assistantText, toolMap, toolOrder and responseId and the
\* snapshot as they were after the first time; a token event is the only
\* event whose second delivery changes the state.
C30_DuplicateEventsAreIdempotent ==
    [][(/\ Handled
        /\ pc' = "reading"
        /\ emitted # <<>>
        /\ Last(emitted)' = Last(emitted)) =>
         /\ Last(emitted).type \in {"tool_start", "tool_end", "final"} =>
              /\ UNCHANGED <<assistantText, toolMap, toolOrder, finalResponseId>>
              /\ Last(yielded)' = Last(yielded)
         /\ <<assistantText, toolMap, toolOrder, finalResponseId>>'
              # <<assistantText, toolMap, toolOrder, finalResponseId>>
            => Last(emitted).type = "token"]_vars

\* the final with tool_calls was handled twice in a row after a tool_start
C30_Witness ==
    /\ Len(emitted) = 3
    /\ emitted[1].type = "tool_start"
    /\ emitted[2].type = "final" /\ emitted[2].tool_calls.t = "array"
    /\ emitted[3] = emitted[2]
    /\ yielded[3] = yielded[2]
    /\ toolOrder = <<"A", "B">>
====
